---- MODULE Spec2Model ----
(***************************************************************************)
(* IntelliDoc (src/app.py): a Streamlit script that indexes uploaded PDFs  *)
(* and answers questions over them with a history-aware retrieval chain.   *)
(*                                                                         *)
(* Every user interaction reruns main() once.  One action of the model is  *)
(* one run of main(): a click on Process, a click on Clear Chat History,   *)
(* or a submitted question.  The state that survives a run is              *)
(* st.session_state (conversation, chat_history); the                      *)
(* other variables record what the last run did: its locals (pdf_docs as   *)
(* read from the uploader by a Process run, documents, user_question) and  *)
(* the calls the chain made (calls, query, context, emitted).              *)
(*                                                                         *)
(* Texts are sequences of lines (the units of str.split("\n")); a line is  *)
(* a record [len, ws]: its length in characters and whether it holds only  *)
(* whitespace.  The empty string is the empty sequence.                    *)
(***************************************************************************)
EXTENDS Integers, Sequences, FiniteSets, TLC

VARIABLES conversation, chat_history, pdf_docs,
          lastOp, outcome, exc, documents, user_question,
          calls, query, context, emitted

vars == <<conversation, chat_history, pdf_docs, lastOp, outcome, exc,
          documents, user_question, calls, query, context, emitted>>

----------------------------------------------------------------------------
(* Bounds *)
MaxDocs == 2
MaxTurns == 2
MaxPages == 2

(* Program constants *)
chunk_size == 1000
chunk_overlap == 200
K == 4

----------------------------------------------------------------------------
(* Texts *)
Line(n) == [len |-> n, ws |-> FALSE]
EmptyText == <<>>
BlankText == <<[len |-> 1, ws |-> TRUE]>>
ShortText == <<Line(300)>>
LongText == <<Line(600), Line(600)>>
OverlapText == <<Line(600), Line(150), Line(400)>>

RECURSIVE SumLen(_)
SumLen(t) == IF t = <<>> THEN 0 ELSE Head(t).len + SumLen(Tail(t))

\* len(text): the lines plus one separator between neighbours
TextLen(t) == IF t = <<>> THEN 0 ELSE SumLen(t) + (Len(t) - 1)

\* Python truthiness of a str: non-empty
Truthy(t) == TextLen(t) > 0

\* str.strip() on the joined lines
RECURSIVE StripLeft(_)
StripLeft(t) == IF t = <<>> THEN <<>>
                ELSE IF Head(t).ws THEN StripLeft(Tail(t)) ELSE t
RECURSIVE StripRight(_)
StripRight(t) == IF t = <<>> THEN <<>>
                 ELSE IF t[Len(t)].ws THEN StripRight(SubSeq(t, 1, Len(t) - 1)) ELSE t
Strip(t) == StripRight(StripLeft(t))

----------------------------------------------------------------------------
(* Uploaded files *)
Pdf(n, p) == [name |-> n, readable |-> TRUE, pages |-> p]
Corrupt(n) == [name |-> n, readable |-> FALSE, pages |-> <<>>]

Catalog == { Pdf("a.pdf", <<LongText, BlankText, ShortText>>),
             Pdf("b.pdf", <<EmptyText, OverlapText>>),
             Pdf("d.pdf", <<BlankText>>),
             Corrupt("c.pdf") }

RECURSIVE SeqsUpTo(_, _)
SeqsUpTo(S, n) == IF n = 0 THEN {<<>>}
                  ELSE LET R == SeqsUpTo(S, n - 1)
                       IN R \cup {Append(s, x) : s \in R, x \in S}

DistinctNames(s) == \A i, j \in 1..Len(s) : i # j => s[i].name # s[j].name

\* what the uploader can hold in a session
UploadSets == {s \in SeqsUpTo(Catalog, MaxDocs) : DistinctNames(s)}

PageTexts == {EmptyText, BlankText, ShortText, LongText}
GenNames == {"a.pdf", "b.pdf"}
GenFiles == {Pdf(n, p) : n \in GenNames, p \in SeqsUpTo(PageTexts, MaxPages)}
              \cup {Corrupt(n) : n \in GenNames}
GenSets == {s \in SeqsUpTo(GenFiles, 2) : s # <<>> /\ DistinctNames(s)}

----------------------------------------------------------------------------
(* get_pdf_text_and_metadata, lines 14-26 *)
Document(text, src, pg) ==
    [page_content |-> text, metadata |-> [source |-> src, page |-> pg]]

\* numbering the records by their position in the output instead of the page's
RECURSIVE PageRecordsRenumbered(_, _, _)
PageRecordsRenumbered(pdf, page_num, kept) ==
    IF page_num >= Len(pdf.pages) THEN <<>>
    ELSE LET text == pdf.pages[page_num + 1]
         IN IF Truthy(text)
            THEN <<Document(text, pdf.name, kept + 1)>>
                 \o PageRecordsRenumbered(pdf, page_num + 1, kept + 1)
            ELSE PageRecordsRenumbered(pdf, page_num + 1, kept)
PageRecordsByCount(pdf, page_num) == PageRecordsRenumbered(pdf, page_num, 0)

\* the inner loop over enumerate(pdf_reader.pages), lines 19-25
RECURSIVE PageRecords(_, _)
PageRecords(pdf, page_num) ==
    IF page_num >= Len(pdf.pages) THEN <<>>
    ELSE LET text == pdf.pages[page_num + 1]
             rest == PageRecords(pdf, page_num + 1)
         IN IF Truthy(text)
            THEN <<Document(text, pdf.name, page_num + 1)>> \o rest
            ELSE rest

\* an extractor that catches the reader's exception and goes on to the next file
RECURSIVE get_pdf_text_and_metadata_skipping(_)
get_pdf_text_and_metadata_skipping(docs) ==
    IF docs = <<>> THEN [ok |-> TRUE, documents |-> <<>>]
    ELSE LET rest == get_pdf_text_and_metadata_skipping(Tail(docs))
         IN IF Head(docs).readable
            THEN [ok |-> TRUE, documents |-> PageRecords(Head(docs), 0) \o rest.documents]
            ELSE rest

\* the outer loop; PdfReader(pdf) raises on an unreadable file and nothing catches it
RECURSIVE get_pdf_text_and_metadata(_)
get_pdf_text_and_metadata(docs) ==
    IF docs = <<>> THEN [ok |-> TRUE, documents |-> <<>>]
    ELSE IF ~Head(docs).readable THEN [ok |-> FALSE, documents |-> <<>>]
    ELSE LET rest == get_pdf_text_and_metadata(Tail(docs))
         IN IF rest.ok
            THEN [ok |-> TRUE, documents |-> PageRecords(Head(docs), 0) \o rest.documents]
            ELSE [ok |-> FALSE, documents |-> <<>>]

----------------------------------------------------------------------------
(* get_text_chunks, lines 29-38: CharacterTextSplitter(separator="\n",     *)
(* chunk_size, chunk_overlap, length_function=len).split_documents         *)
SepLen == 1

\* "\n".join(current).strip(), dropped when empty
AppendDoc(docs, current) ==
    LET s == Strip(current) IN IF s = <<>> THEN docs ELSE Append(docs, s)

RECURSIVE PopFront(_, _, _)
PopFront(current, total, newlen) ==
    IF total > chunk_overlap
         \/ (total + newlen + (IF Len(current) > 0 THEN SepLen ELSE 0) > chunk_size /\ total > 0)
    THEN PopFront(Tail(current),
                  total - (Head(current).len + (IF Len(current) > 1 THEN SepLen ELSE 0)),
                  newlen)
    ELSE [current |-> current, total |-> total]

RECURSIVE MergeSplits(_, _, _, _)
MergeSplits(splits, current, total, docs) ==
    IF splits = <<>> THEN AppendDoc(docs, current)
    ELSE LET d == Head(splits)
             flush == Len(current) > 0
                      /\ total + d.len + (IF Len(current) > 0 THEN SepLen ELSE 0) > chunk_size
             docs1 == IF flush THEN AppendDoc(docs, current) ELSE docs
             st == IF flush THEN PopFront(current, total, d.len)
                   ELSE [current |-> current, total |-> total]
             cur2 == Append(st.current, d)
             tot2 == st.total + d.len + (IF Len(cur2) > 1 THEN SepLen ELSE 0)
         IN MergeSplits(Tail(splits), cur2, tot2, docs1)

\* split on the separator, drop empty pieces, merge
SplitText(text) == MergeSplits(SelectSeq(text, LAMBDA l : l.len > 0), <<>>, 0, <<>>)

RECURSIVE ChunksOf(_, _)
ChunksOf(doc, pieces) ==
    IF pieces = <<>> THEN <<>>
    ELSE <<[page_content |-> Head(pieces), metadata |-> doc.metadata]>>
         \o ChunksOf(doc, Tail(pieces))

RECURSIVE get_text_chunks(_)
get_text_chunks(docs) ==
    IF docs = <<>> THEN <<>>
    ELSE ChunksOf(Head(docs), SplitText(Head(docs).page_content))
         \o get_text_chunks(Tail(docs))

----------------------------------------------------------------------------
(* get_vectorstore, lines 41-45.  FAISS.from_documents embeds every chunk  *)
(* (a network call that can fail after n chunks) and then builds the index *)
(* from all the vectors; it raises on an empty chunk list.  The store is   *)
(* returned only when all of that succeeded.                               *)
NoStore == <<>>

\* a store that keeps the chunks embedded before the failure
get_vectorstore_partial(text_chunks, n) ==
    IF text_chunks = <<>> \/ n = 0 THEN [exc |-> "IndexError", vectorstore |-> NoStore]
    ELSE [exc |-> "none", vectorstore |-> SubSeq(text_chunks, 1, n)]

get_vectorstore(text_chunks, n) ==
    IF n < Len(text_chunks) THEN [exc |-> "EmbeddingError", vectorstore |-> NoStore]
    ELSE IF text_chunks = <<>> THEN [exc |-> "IndexError", vectorstore |-> NoStore]
    ELSE [exc |-> "none", vectorstore |-> text_chunks]

(* get_conversation_rag_chain, lines 48-78: the chain is bound to the store *)
None == [kind |-> "None"]
get_conversation_rag_chain(vectorstore) == [kind |-> "chain", vectorstore |-> vectorstore]

----------------------------------------------------------------------------
(* Conversation turns, lines 88-91, 160-161 *)
Greeting == "Hello! I'm IntelliDoc. Upload your documents to get started."
SystemMessage == <<"system", Greeting>>
HumanTurn(q) == <<"human", q>>
AITurn(response) == <<"ai", response, <<>>>>

InitialHistory == <<SystemMessage>>

\* the citations rendered for a turn, lines 140-145
CitedSources(message) ==
    IF Len(message) > 2 /\ message[3] # <<>>
    THEN {<<message[3][i].metadata.source, message[3][i].metadata.page>> : i \in 1..Len(message[3])}
    ELSE {}

----------------------------------------------------------------------------
(* The chain's stream, lines 154-158 *)
Questions == {"What is X?", "And Y?"}
Standalone == "standalone question"
\* what the rewriting model may answer: the question as is, or a reformulation
RewriteOutputs(q) == {q, Standalone}
\* the fragment sequences the answering model may emit (up to a failure, if any)
Streams == {<<>>, <<"a">>, <<"a", "b">>}
NoQuery == ""

\* create_history_aware_retriever (line 64): the question goes to the
\* retriever untouched only when the chat_history it is given is empty
UseRewrite(history) == history # <<>>

\* vectorstore.as_retriever() (line 51): the K nearest chunks, all of them
\* when the store holds fewer; which ones depends on the embeddings
RECURSIVE Pick(_, _, _)
Pick(store, S, i) ==
    IF i > Len(store) THEN <<>>
    ELSE (IF i \in S THEN <<store[i]>> ELSE <<>>) \o Pick(store, S, i + 1)

Min(a, b) == IF a < b THEN a ELSE b

Retrievals(store) ==
    {Pick(store, S, 1) : S \in {T \in SUBSET (1..Len(store)) : Cardinality(T) = Min(K, Len(store))}}

\* st.write_stream concatenates the fragments in arrival order
RECURSIVE Concat(_)
Concat(frags) == IF frags = <<>> THEN "" ELSE Head(frags) \o Concat(Tail(frags))

\* One run of the chain over the history it was handed.  rq is the
\* rewriting model's output, ctx the retriever's result, frags the
\* fragments the answering model emits, fail the call that raises.
StreamChain(history, input, rq, ctx, frags, fail) ==
    LET rewrite == UseRewrite(history)
        pre == IF rewrite THEN <<"rewrite">> ELSE <<>>
        q == IF rewrite THEN rq ELSE input
    IN IF rewrite /\ fail = "rewrite"
       THEN [exc |-> "RewriteError", calls |-> pre, query |-> NoQuery,
             context |-> <<>>, emitted |-> <<>>]
       ELSE IF fail = "retrieve"
       THEN [exc |-> "RetrievalError", calls |-> Append(pre, "retrieve"), query |-> q,
             context |-> <<>>, emitted |-> <<>>]
       ELSE IF fail = "generate"
       THEN [exc |-> "GenerationError", calls |-> pre \o <<"retrieve", "generate">>,
             query |-> q, context |-> ctx, emitted |-> frags]
       ELSE [exc |-> "none", calls |-> pre \o <<"retrieve", "generate">>,
             query |-> q, context |-> ctx, emitted |-> frags]

----------------------------------------------------------------------------
(* main(), lines 81-164 *)

\* lines 86-91 on the first run of a session
Init ==
    /\ conversation = None
    /\ chat_history = InitialHistory
    /\ pdf_docs = <<>>
    /\ lastOp = "init"
    /\ outcome = "ok"
    /\ exc = "none"
    /\ documents = <<>>
    /\ user_question = ""
    /\ calls = <<>>
    /\ query = NoQuery
    /\ context = <<>>
    /\ emitted = <<>>

NoChainRun == /\ user_question' = ""
              /\ calls' = <<>>
              /\ query' = NoQuery
              /\ context' = <<>>
              /\ emitted' = <<>>

\* lines 102-103 for every upload the model draws
Extracted == [s \in UploadSets |-> get_pdf_text_and_metadata(s)]
Chunked == [s \in UploadSets |-> get_text_chunks(Extracted[s].documents)]

\* the Process button, lines 99-108.  The locals of lines 102-104 are bound
\* in order; an exception at any of them leaves the run before line 105.
\* n is the number of chunks embedded before the embedding service fails.
Process ==
    /\ lastOp' = "process"
    /\ NoChainRun
    /\ UNCHANGED chat_history
    /\ \E s \in UploadSets :
        /\ pdf_docs' = s
        /\ IF s # <<>>
           THEN LET ext == Extracted[s]
                    text_chunks == Chunked[s]
                IN \E n \in 0..Len(text_chunks) :
                    LET vs == get_vectorstore(text_chunks, n)
                    IN /\ documents' = ext.documents
                       /\ exc' = IF ~ext.ok THEN "PdfReadError" ELSE vs.exc
                       /\ outcome' = IF exc' = "none" THEN "ok" ELSE "error"
                       /\ conversation' = IF exc' = "none"
                                          THEN get_conversation_rag_chain(vs.vectorstore)
                                          ELSE conversation
           ELSE /\ outcome' = "warning"
                /\ exc' = "none"
                /\ documents' = <<>>
                /\ UNCHANGED conversation

\* a clear that puts the greeting after the turns instead of replacing them
ClearAppending ==
    /\ chat_history' = Append(chat_history, SystemMessage)
    /\ lastOp' = "clear"
    /\ outcome' = "ok"
    /\ exc' = "none"
    /\ documents' = <<>>
    /\ NoChainRun
    /\ pdf_docs' = <<>>
    /\ UNCHANGED conversation

\* the Clear Chat History button, lines 110-114; the run st.rerun() starts
\* has no button pressed and no question, and changes nothing
Clear ==
    /\ chat_history' = <<SystemMessage>>
    /\ lastOp' = "clear"
    /\ outcome' = "ok"
    /\ exc' = "none"
    /\ documents' = <<>>
    /\ NoChainRun
    /\ pdf_docs' = <<>>
    /\ UNCHANGED conversation

\* a history that keeps only the latest exchange
AppendTurnWindowed(history, q, response) ==
    <<SystemMessage, HumanTurn(q), AITurn(response)>>

\* lines 160-161, reached only when the stream ran to its end
AppendTurn(history, q, response) ==
    Append(Append(history, HumanTurn(q)), AITurn(response))

\* a run that records what was streamed before the answering model failed
HistoryAfterPartial(history, q, run) ==
    IF run.exc \in {"none", "GenerationError"}
    THEN AppendTurn(history, q, Concat(run.emitted)) ELSE history

\* a run that records the question before it starts the stream
HistoryAfterQuestionFirst(history, q, run) ==
    IF run.exc = "none" THEN AppendTurn(history, q, Concat(run.emitted))
    ELSE Append(history, HumanTurn(q))

\* what the run leaves in chat_history, given how the stream ended
HistoryAfter(history, q, run) ==
    IF run.exc = "none" THEN AppendTurn(history, q, Concat(run.emitted)) ELSE history

\* a question with a chain in the session, lines 149-162
AskReady(q) ==
    \E fail \in {"none", "rewrite", "retrieve", "generate"} :
    \E rq \in (IF fail = "rewrite" THEN {q} ELSE RewriteOutputs(q)),
       ctx \in (IF fail \in {"rewrite", "retrieve"} THEN {<<>>}
                ELSE Retrievals(conversation.vectorstore)),
       frags \in (IF fail \in {"rewrite", "retrieve"} THEN {<<>>}
                  ELSE Streams) :
        LET run == StreamChain(chat_history, q, rq, ctx, frags, fail)
        IN /\ chat_history' = HistoryAfter(chat_history, q, run)
           /\ exc' = run.exc
           /\ outcome' = IF run.exc = "none" THEN "ok" ELSE "error"
           /\ calls' = run.calls
           /\ query' = run.query
           /\ context' = run.context
           /\ emitted' = run.emitted

\* a not-ready branch that still records the question
AskNotReadyRecording(q) ==
    /\ outcome' = "warning"
    /\ exc' = "none"
    /\ calls' = <<>>
    /\ query' = NoQuery
    /\ context' = <<>>
    /\ emitted' = <<>>
    /\ chat_history' = Append(chat_history, HumanTurn(q))

\* a question without one, lines 163-164
AskNotReady(q) ==
    /\ outcome' = "warning"
    /\ exc' = "none"
    /\ calls' = <<>>
    /\ query' = NoQuery
    /\ context' = <<>>
    /\ emitted' = <<>>
    /\ UNCHANGED chat_history

\* the chat input, lines 147-164
Ask ==
    /\ Len(chat_history) < 1 + 2 * MaxTurns
    /\ \E q \in Questions :
        /\ user_question' = q
        /\ IF conversation # None THEN AskReady(q) ELSE AskNotReady(q)
    /\ lastOp' = "ask"
    /\ documents' = <<>>
    /\ pdf_docs' = <<>>
    /\ UNCHANGED conversation

Next == Process \/ Clear \/ Ask

Spec == Init /\ [][Next]_vars

\* the extractor applied to generated document sets
InitExtract ==
    /\ pdf_docs \in GenSets
    /\ conversation = None
    /\ chat_history = InitialHistory
    /\ lastOp = "init"
    /\ outcome = "ok"
    /\ exc = "none"
    /\ documents = <<>>
    /\ user_question = ""
    /\ calls = <<>>
    /\ query = NoQuery
    /\ context = <<>>
    /\ emitted = <<>>

\* one application of get_pdf_text_and_metadata to the drawn set (line 102)
ExtractStep ==
    /\ lastOp = "init"
    /\ lastOp' = "extract"
    /\ LET ext == get_pdf_text_and_metadata(pdf_docs)
       IN /\ documents' = ext.documents
          /\ exc' = IF ext.ok THEN "none" ELSE "PdfReadError"
          /\ outcome' = IF ext.ok THEN "ok" ELSE "error"
    /\ UNCHANGED <<conversation, chat_history, pdf_docs, user_question,
                   calls, query, context, emitted>>

NextExtract == ExtractStep

SpecExtract == InitExtract /\ [][NextExtract]_vars

TypeOK ==
    /\ lastOp \in {"init", "extract", "process", "clear", "ask"}
    /\ outcome \in {"ok", "warning", "error"}

----------------------------------------------------------------------------
(* Properties *)

Range(f) == {f[i] : i \in 1..Len(f)}
\* a text of nothing but whitespace (the empty text included)
IsBlank(t) == \A i \in 1..Len(t) : t[i].ws
IsPrefix(s, t) == Len(s) <= Len(t) /\ SubSeq(t, 1, Len(s)) = s
Role(turn) == turn[1]
LastTurn == chat_history[Len(chat_history)]
HasUnreadable(docs) == \E i \in 1..Len(docs) : ~docs[i].readable
ReadableOnly(docs) == SelectSeq(docs, LAMBDA f : f.readable)
PairsOf(chunks) == {<<c.metadata.source, c.metadata.page>> : c \in Range(chunks)}
NoPriorTurns(history) == \A i \in 1..Len(history) : Role(history[i]) \notin {"human", "ai"}

\* the page records of one file, read off its pages without the loop
AllPages(pdf) == [i \in 1..Len(pdf.pages) |-> Document(pdf.pages[i], pdf.name, i)]
RECURSIVE Flatten(_)
Flatten(ss) == IF ss = <<>> THEN <<>> ELSE Head(ss) \o Flatten(Tail(ss))
\* the records of the pages whose text is not the empty string
NonEmptyRecords(docs) ==
    Flatten([i \in 1..Len(docs) |->
                SelectSeq(AllPages(docs[i]), LAMBDA d : d.page_content # <<>>)])
\* the records of the pages whose text is neither empty nor whitespace-only
NonBlankRecords(docs) ==
    Flatten([i \in 1..Len(docs) |->
                SelectSeq(AllPages(docs[i]), LAMBDA d : ~IsBlank(d.page_content))])

\* C1: when the answering stream fails, after any number of fragments, the run
\* ends in an error and chat_history is what it was before the run: no human
\* turn and no AI turn with the partial text is appended.
C1_FailedStreamLeavesHistory ==
    [][(lastOp' = "ask" /\ exc' = "GenerationError")
         => (outcome' = "error" /\ chat_history' = chat_history)]_vars

\* C1 witness: a stream that failed after two fragments, one turn already recorded
C1_Witness ==
    /\ lastOp = "ask"
    /\ exc = "GenerationError"
    /\ Len(emitted) = 2
    /\ Len(chat_history) = 3

\* C2: the AI turn a successful run records cites exactly the (source, page)
\* pairs of the chunks that were passed to synthesis as context.
C2_SourcesAreContextPairs ==
    (lastOp = "ask" /\ outcome = "ok") => CitedSources(LastTurn) = PairsOf(context)

\* C3: the session holds no chain exactly until a Process run succeeds (a
\* chain is installed only by a successful Process run and never removed),
\* and a question asked while it holds none ends in the warning: no rewrite,
\* retrieval or generation call, nothing streamed, chat_history unchanged.
C3_NotReady ==
    [][/\ (conversation = None /\ conversation' # None)
          => (lastOp' = "process" /\ outcome' = "ok")
       /\ conversation # None => conversation' # None
       /\ (lastOp' = "ask" /\ conversation = None)
          => /\ outcome' = "warning"
             /\ calls' = <<>>
             /\ emitted' = <<>>
             /\ query' = NoQuery
             /\ chat_history' = chat_history]_vars

\* C3 witness: a question turned away in a session that holds no chain
C3_Witness ==
    /\ lastOp = "ask"
    /\ conversation = None
    /\ outcome = "warning"
    /\ user_question \in Questions

\* every chunk of every page with text of every file of an upload
WholeSet == [s \in UploadSets |-> get_text_chunks(NonEmptyRecords(s))]

\* the chains a complete build over one upload can install
CompleteChains ==
    {get_conversation_rag_chain(WholeSet[s]) :
        s \in {u \in UploadSets : ~HasUnreadable(u) /\ WholeSet[u] # <<>>}}

\* C4: a Process run that fails at extraction, embedding or index building
\* leaves the session's chain as it was; one that succeeds installs the chain
\* over all the chunks of all the uploaded files; so the chain is always
\* absent or built from one whole document set.
C4_AllOrNothing ==
    [][/\ lastOp' = "process"
          => IF outcome' = "ok"
             THEN conversation' = get_conversation_rag_chain(WholeSet[pdf_docs'])
             ELSE conversation' = conversation
       /\ conversation' \in {None} \cup CompleteChains]_vars

\* C4 witness: embedding failed on a re-process and the earlier chain is still active
C4_Witness ==
    /\ lastOp = "process"
    /\ exc = "EmbeddingError"
    /\ conversation # None

\* C5: after Clear Chat History the conversation is the one System turn.
C5_ResetYieldsSystemOnly ==
    lastOp = "clear" => (Len(chat_history) = 1 /\ Role(chat_history[1]) = "system")

\* C5 witness: a clear in a session that has a chain, so turns could be recorded
C5_Witness ==
    /\ lastOp = "clear"
    /\ conversation # None
    /\ chat_history = <<SystemMessage>>

\* C6: every run other than a clear leaves the old chat_history as a prefix of
\* the new one.
C6_AppendOnly ==
    [][lastOp' # "clear" => IsPrefix(chat_history, chat_history')]_vars

\* C6 witness: a second exchange appended behind the first
C6_Witness ==
    /\ lastOp = "ask"
    /\ outcome = "ok"
    /\ Len(chat_history) = 5

\* C7 as stated: with an unreadable file among readable ones that hold text,
\* extraction goes past the unreadable file, and a successful run installs
\* the chain over the readable files' chunks.
C7_UnreadableSkipped ==
    [][(/\ lastOp' = "process"
        /\ HasUnreadable(pdf_docs')
        /\ WholeSet[ReadableOnly(pdf_docs')] # <<>>)
         => /\ exc' # "PdfReadError"
            /\ outcome' = "ok"
                 => conversation' = get_conversation_rag_chain(
                                       WholeSet[ReadableOnly(pdf_docs')])]_vars

\* C7 amended: an unreadable file in the upload makes the whole Process run
\* fail at extraction: no page record is kept and the session's chain stays
\* what it was.
C7_UnreadableAborts ==
    [][(lastOp' = "process" /\ HasUnreadable(pdf_docs'))
         => /\ exc' = "PdfReadError"
            /\ outcome' = "error"
            /\ documents' = <<>>
            /\ conversation' = conversation]_vars

\* C7 witness: a readable file with text and an unreadable one, processed
\* while an earlier chain is active
C7_Witness ==
    /\ lastOp = "process"
    /\ HasUnreadable(pdf_docs)
    /\ WholeSet[ReadableOnly(pdf_docs)] # <<>>
    /\ exc = "PdfReadError"
    /\ conversation # None

\* C8: on a turn asked with no human or AI turn in chat_history, the query
\* given to the retriever is the question itself and the rewriting model is
\* not called.
C8_FirstTurnQueryIsQuestion ==
    [][(/\ lastOp' = "ask"
        /\ NoPriorTurns(chat_history)
        /\ "retrieve" \in Range(calls'))
         => (query' = user_question' /\ "rewrite" \notin Range(calls'))]_vars

\* C9 as stated: the extractor returns one record for each page whose text is
\* neither empty nor whitespace-only, in order, with the file's name and the
\* page's 1-based position.
C9_RecordsForNonBlankPages ==
    (lastOp = "extract" /\ exc = "none") => documents = NonBlankRecords(pdf_docs)

\* C9 amended: the extractor returns one record for each page whose text is
\* not the empty string (a whitespace-only page gets one), in file and page
\* order, with the file's name and the page's 1-based position.
C9_RecordsForNonEmptyPages ==
    (lastOp = "extract" /\ exc = "none") => documents = NonEmptyRecords(pdf_docs)

\* C9 witness: an empty page and a whitespace-only page, each before a page with text
C9_Witness ==
    /\ lastOp = "extract"
    /\ exc = "none"
    /\ Len(pdf_docs) = 2
    /\ pdf_docs[1].pages = <<EmptyText, ShortText>>
    /\ pdf_docs[2].pages = <<BlankText, LongText>>
    /\ Len(documents) = 3

\* C10: chat_history is one System turn followed by (human, ai) pairs.
C10_Shape ==
    /\ Len(chat_history) % 2 = 1
    /\ Role(chat_history[1]) = "system"
    /\ \A i \in 2..Len(chat_history) :
         Role(chat_history[i]) = (IF i % 2 = 0 THEN "human" ELSE "ai")

\* C10 witness: a failed turn after a recorded one
C10_Witness ==
    /\ lastOp = "ask"
    /\ outcome = "error"
    /\ Len(chat_history) = 3

====
